---- MODULE Spec2Model ----
(***************************************************************************)
(* Smoke-test scripts for the Chainguard PostgreSQL and Rust images.       *)
(*                                                                         *)
(* One behaviour is one execution of one of the two scripts.  Every        *)
(* external command is a step whose exit status is chosen by the           *)
(* environment; the scripts only ever test that status against 0.          *)
(***************************************************************************)
EXTENDS Integers, Sequences, FiniteSets, TLC

\* Exit statuses the environment may return: 0 .. MaxCode (0 is success).
MaxCode == 2

Codes == 0..MaxCode

\* test-postgres-chainguard.py: max_attempts = 30, time.sleep(2)
max_attempts == 30

sleep_interval == 2

VARIABLES
    script,     \* which script this execution runs
    pc,         \* postgres: the next step of test_postgres_chainguard / __main__
    attempt,    \* postgres: loop index of the readiness loop
    slept,      \* postgres: time units spent in time.sleep
    code,       \* postgres: the local `code` (last exit status returned by run_command)
    stdout,     \* postgres: the local `stdout`, as far as the script looks into it
    log,        \* postgres: the external commands issued so far, in order
    result,     \* postgres: value returned by test_postgres_chainguard ("none" until it returns)
    uncaught,   \* postgres: an exception left test_postgres_chainguard
    exitcode,   \* postgres: exit status of the process (-1 while it runs)
    rust        \* rust: the executions of test-rust-chainguard.py, one record each

vars == <<script, pc, attempt, slept, code, stdout, log, result, uncaught, exitcode, rust>>

(***************************************************************************)
(* run_command: subprocess.run(..., check=check).  With check=True a       *)
(* nonzero status raises CalledProcessError, which the except clause turns *)
(* back into the (stdout, stderr, returncode) triple.  exc tells whether   *)
(* an exception leaves run_command.                                        *)
(***************************************************************************)
run_command_no_except(rc, check) ==
    [code |-> rc, exc |-> check /\ rc # 0]

run_command(rc, check) ==
    LET raised == check /\ rc # 0      \* subprocess.CalledProcessError
        caught == raised                \* except subprocess.CalledProcessError
    IN  [code |-> rc, exc |-> raised /\ ~caught]

Entry(step, cmd, rc) == [step |-> step, cmd |-> cmd, ok |-> (rc = 0)]

\* Output the script only prints: its content does not matter.
Text == [json |-> FALSE, kind |-> "text", truthy |-> TRUE, first |-> "none"]

(***************************************************************************)
(* test_postgres_chainguard                                                *)
(***************************************************************************)

\* `if code == 0: ... else: ...; return False` after a mandatory command.
PgBranch_ignore_failure(rc, next) == next

PgBranch(rc, next) == IF rc = 0 THEN next ELSE "main"

\* A mandatory step: one command, success continues, failure returns False.
PgMandatoryStep(step, cmd, next) ==
    /\ \E rc \in Codes :
          LET res == run_command(rc, TRUE)
              to  == PgBranch(res.code, next)
          IN  /\ code' = res.code
              /\ stdout' = Text
              /\ log' = Append(log, Entry(step, cmd, rc))
              /\ uncaught' = res.exc
              /\ pc' = IF res.exc THEN "main" ELSE to
              /\ result' = IF ~res.exc /\ to = "main" THEN "False" ELSE result
    /\ UNCHANGED <<script, attempt, slept, exitcode, rust>>

\* A command whose exit status is not looked at (run_command(..., check=False)).
PgIgnoredStep_checked(step, cmd, next) == PgMandatoryStep(step, cmd, next)

PgIgnoredStep(step, cmd, next) ==
    /\ \E rc \in Codes :
          LET res == run_command(rc, FALSE)
          IN  /\ log' = Append(log, Entry(step, cmd, rc))
              /\ uncaught' = res.exc
              /\ pc' = IF res.exc THEN "main" ELSE next
    /\ UNCHANGED <<script, attempt, slept, code, stdout, result, exitcode, rust>>

\* Step 1
PgImageCheck ==
    /\ script = "postgres"
    /\ pc = "image_check"
    /\ PgMandatoryStep(1, "images_list", "pre_stop")

\* Step 2: stop and remove any existing container with the same name, then start
PgPreStop ==
    /\ script = "postgres"
    /\ pc = "pre_stop"
    /\ PgIgnoredStep(2, "stop", "pre_delete")

PgPreDelete ==
    /\ script = "postgres"
    /\ pc = "pre_delete"
    /\ PgIgnoredStep(2, "delete", "launch")

PgLaunch ==
    /\ script = "postgres"
    /\ pc = "launch"
    /\ PgMandatoryStep(2, "run", "probe")

\* Step 3: one iteration of `for attempt in range(max_attempts)` up to the
\* break or the sleep.
PgProbeNext_no_break(rc) == "sleep"

PgProbeNext_skip_connectivity(rc) == IF rc = 0 THEN "create_table" ELSE "sleep"

PgProbeNext_relaunch(rc) == IF rc = 0 THEN "connectivity" ELSE "launch"

PgProbeNext_no_sleep(rc) == IF rc = 0 THEN "connectivity" ELSE "probe"

PgProbeNext(rc) == IF rc = 0 THEN "connectivity" ELSE "sleep"

PgProbe ==
    /\ script = "postgres"
    /\ pc = "probe"
    /\ attempt < max_attempts
    /\ \E rc \in Codes :
          LET res == run_command(rc, TRUE)
          IN  /\ code' = res.code
              /\ stdout' = Text
              /\ log' = Append(log, Entry(3, "pg_isready", rc))
              /\ uncaught' = res.exc
              /\ pc' = IF res.exc THEN "main" ELSE PgProbeNext(res.code)
    /\ UNCHANGED <<script, attempt, slept, result, exitcode, rust>>

\* time.sleep(2), then the next iteration; the for-else returns False when
\* range(max_attempts) is used up.
PgSleep ==
    /\ script = "postgres"
    /\ pc = "sleep"
    /\ slept' = slept + sleep_interval
    /\ attempt' = attempt + 1
    /\ IF attempt + 1 < max_attempts
          THEN pc' = "probe" /\ result' = result
          ELSE pc' = "main" /\ result' = "False"
    /\ UNCHANGED <<script, code, stdout, log, uncaught, exitcode, rust>>

\* Step 4
PgConnectivity ==
    /\ script = "postgres"
    /\ pc = "connectivity"
    /\ PgMandatoryStep(4, "psql_version", "create_table")

\* Step 5
PgCreateTable ==
    /\ script = "postgres"
    /\ pc = "create_table"
    /\ PgMandatoryStep(5, "psql_create", "insert")

PgInsert ==
    /\ script = "postgres"
    /\ pc = "insert"
    /\ PgMandatoryStep(5, "psql_insert", "query")

PgQuery ==
    /\ script = "postgres"
    /\ pc = "query"
    /\ PgMandatoryStep(5, "psql_select", "inspect")

(***************************************************************************)
(* Step 6: `container inspect`.  The standard output is abstracted to what *)
(* lines 116-123 look at: whether it is JSON at all, the kind of the       *)
(* top-level value, its truth value, and what its element 0 is.            *)
(***************************************************************************)
InspectOutputs ==
    { [json |-> FALSE, kind |-> "none",   truthy |-> FALSE, first |-> "none"],    \* not JSON
      [json |-> TRUE,  kind |-> "array",  truthy |-> FALSE, first |-> "none"],    \* []
      [json |-> TRUE,  kind |-> "array",  truthy |-> TRUE,  first |-> "object"],  \* [{...}]
      [json |-> TRUE,  kind |-> "array",  truthy |-> TRUE,  first |-> "scalar"],  \* [1]
      [json |-> TRUE,  kind |-> "object", truthy |-> FALSE, first |-> "none"],    \* {}
      [json |-> TRUE,  kind |-> "object", truthy |-> TRUE,  first |-> "none"],    \* {"id": "x"}
      [json |-> TRUE,  kind |-> "string", truthy |-> TRUE,  first |-> "scalar"],  \* "abc"
      [json |-> TRUE,  kind |-> "number", truthy |-> TRUE,  first |-> "none"],    \* 5
      [json |-> TRUE,  kind |-> "null",   truthy |-> FALSE, first |-> "none"] }   \* null

\* The exception raised by the body of the try statement, "none" if it completes.
InspectRaises(doc) ==
    IF ~doc.json THEN "JSONDecodeError"                   \* json.loads(stdout)
    ELSE IF ~doc.truthy THEN "none"                       \* if container_info:
    ELSE CASE doc.kind = "array"  ->                      \* info = container_info[0]
                   IF doc.first = "object" THEN "none"    \* info.get(...)
                   ELSE "AttributeError"
           [] doc.kind = "object" -> "KeyError"
           [] doc.kind = "string" -> "AttributeError"
           [] OTHER               -> "TypeError"

\* except json.JSONDecodeError
InspectCaught(e) == e = "JSONDecodeError"

PgInspect ==
    /\ script = "postgres"
    /\ pc = "inspect"
    /\ \E rc \in Codes, doc \in InspectOutputs :
          LET res == run_command(rc, TRUE)
              e   == IF res.code = 0 THEN InspectRaises(doc) ELSE "none"
              esc == res.exc \/ (e # "none" /\ ~InspectCaught(e))
          IN  /\ code' = res.code
              /\ stdout' = IF res.code = 0 THEN doc ELSE Text
              /\ log' = Append(log, Entry(6, "inspect", rc))
              /\ uncaught' = esc
              /\ pc' = IF esc THEN "main" ELSE "cleanup_stop"
    /\ UNCHANGED <<script, attempt, slept, result, exitcode, rust>>

\* Step 7: the exit status is only reported.
PgCleanupNext_abort_on_failure(rc, next) == IF rc = 0 THEN next ELSE "main"

PgCleanupNext(rc, next) == next

PgCleanupStop ==
    /\ script = "postgres"
    /\ pc = "cleanup_stop"
    /\ \E rc \in Codes :
          LET res == run_command(rc, TRUE)
          IN  /\ code' = res.code
              /\ stdout' = Text
              /\ log' = Append(log, Entry(7, "stop", rc))
              /\ uncaught' = res.exc
              /\ pc' = IF res.exc THEN "main"
                       ELSE PgCleanupNext(res.code, "cleanup_delete")
    /\ UNCHANGED <<script, attempt, slept, result, exitcode, rust>>

\* ... and `return True`
PgCleanupDelete ==
    /\ script = "postgres"
    /\ pc = "cleanup_delete"
    /\ \E rc \in Codes :
          LET res == run_command(rc, TRUE)
          IN  /\ code' = res.code
              /\ stdout' = Text
              /\ log' = Append(log, Entry(7, "delete", rc))
              /\ uncaught' = res.exc
              /\ pc' = "main"
              /\ result' = IF res.exc THEN result ELSE "True"
    /\ UNCHANGED <<script, attempt, slept, exitcode, rust>>

\* __main__: sys.exit(0 if success else 1); an exception that left the
\* function ends the interpreter with status 1 before sys.exit is reached.
ExitStatus(success) == IF success = "True" THEN 0 ELSE 1

PgMain ==
    /\ script = "postgres"
    /\ pc = "main"
    /\ exitcode' = IF uncaught THEN 1 ELSE ExitStatus(result)
    /\ pc' = "exited"
    /\ UNCHANGED <<script, attempt, slept, code, stdout, log, result, uncaught, rust>>

PgNext ==
    \/ PgImageCheck
    \/ PgPreStop
    \/ PgPreDelete
    \/ PgLaunch
    \/ PgProbe
    \/ PgSleep
    \/ PgConnectivity
    \/ PgCreateTable
    \/ PgInsert
    \/ PgQuery
    \/ PgInspect
    \/ PgCleanupStop
    \/ PgCleanupDelete
    \/ PgMain

(***************************************************************************)
(* test-rust-chainguard.py.  An execution is a record: pc, the local       *)
(* `code`, the paths that exist in the working directory, the steps taken, *)
(* the value test_rust_chainguard returns, whether the cargo warning was   *)
(* printed, and the exit status of the process.                            *)
(***************************************************************************)
files_to_remove == {"hello_world.rs", "Cargo.toml", "hello_world", "hello_optimized"}

Paths == files_to_remove \cup {"src"}

\* Where a file operation of a step raises OSError ("none": nowhere).
Faults == {"none", "open", "write", "makedirs", "move"}

Inputs == [rc : Codes, fault : Faults]

RustStart(existing) ==
    [pc |-> "image_check", code |-> -1, files |-> existing, log |-> <<>>,
     result |-> "none", warned |-> FALSE, exitcode |-> -1]

\* cleanup_files()
cleanup_files_keeps_src(files) == files \ files_to_remove

cleanup_files(files) ==
    LET removed == files \ {file \in files_to_remove : file \in files}
    IN  IF "src" \in removed THEN removed \ {"src"} ELSE removed

\* `if code == 0: ... else: ...; return False` inside the try statement: the
\* return leaves through the finally clause.
RustBranch_ignore_failure(rc, next) == next

RustBranch(rc, next) == IF rc = 0 THEN next ELSE "finally"

\* A mandatory command of test_rust_chainguard; `creates` are the paths the
\* command writes into the mounted working directory when it succeeds.
RustMandatory(s, step, cmd, in, next, creates) ==
    LET res == run_command(in.rc, TRUE)
        to  == RustBranch(res.code, next)
    IN  IF res.exc
        THEN [s EXCEPT !.log = Append(@, Entry(step, cmd, in.rc)), !.pc = "except"]
        ELSE [s EXCEPT !.code = res.code,
                       !.log = Append(@, Entry(step, cmd, in.rc)),
                       !.files = IF res.code = 0 THEN @ \cup creates ELSE @,
                       !.pc = to,
                       !.result = IF to = "finally" THEN "False" ELSE @]

\* A command whose exit status only selects what is printed.
RustReported_mandatory(s, step, cmd, in, next) ==
    RustMandatory(s, step, cmd, in, next, {})

RustReported(s, step, cmd, in, next) ==
    LET res == run_command(in.rc, TRUE)
    IN  IF res.exc
        THEN [s EXCEPT !.log = Append(@, Entry(step, cmd, in.rc)), !.pc = "except"]
        ELSE [s EXCEPT !.code = res.code,
                       !.log = Append(@, Entry(step, cmd, in.rc)),
                       !.pc = next]

\* Step 1
ImageCheckStep(s, in) == RustMandatory(s, 1, "images_list", in, "write_source", {})

\* Step 2: with open('hello_world.rs', 'w') as f: f.write(rust_code)
WriteSourceStep(s, in) ==
    CASE in.fault = "open"  ->
            [s EXCEPT !.log = Append(@, Entry(2, "write_source", 1)), !.pc = "except"]
      [] in.fault = "write" ->
            [s EXCEPT !.log = Append(@, Entry(2, "write_source", 1)),
                      !.files = @ \cup {"hello_world.rs"}, !.pc = "except"]
      [] OTHER ->
            [s EXCEPT !.log = Append(@, Entry(2, "write_source", 0)),
                      !.files = @ \cup {"hello_world.rs"}, !.pc = "rustc_version"]

\* Step 3
RustcVersionStep(s, in) == RustMandatory(s, 3, "rustc_version", in, "compile", {})

\* Step 4
CompileStep(s, in) == RustMandatory(s, 4, "rustc", in, "run", {"hello_world"})

\* Step 5
RunStep(s, in) == RustMandatory(s, 5, "hello_world", in, "cargo", {})

\* Step 6: cargo --version, tolerated when it fails
CargoNext_mandatory(rc) == IF rc = 0 THEN "make_project" ELSE "finally"

CargoNext(rc) == "make_project"

CargoStep(s, in) ==
    LET res == run_command(in.rc, TRUE)
        to  == CargoNext(res.code)
    IN  IF res.exc
        THEN [s EXCEPT !.log = Append(@, Entry(6, "cargo_version", in.rc)), !.pc = "except"]
        ELSE [s EXCEPT !.code = res.code,
                       !.log = Append(@, Entry(6, "cargo_version", in.rc)),
                       !.warned = (res.code # 0),
                       !.pc = to,
                       !.result = IF to = "finally" THEN "False" ELSE @]

\* Step 7, file part: os.makedirs('src', exist_ok=True);
\* shutil.move('hello_world.rs', 'src/main.rs'); write Cargo.toml
MakeProjectStep(s, in) ==
    LET failed == [s EXCEPT !.log = Append(@, Entry(7, "make_project", 1)), !.pc = "except"]
    IN  CASE in.fault = "makedirs" -> failed
          [] in.fault = "move"  -> [failed EXCEPT !.files = @ \cup {"src"}]
          [] in.fault = "open"  ->
                [failed EXCEPT !.files = (@ \cup {"src"}) \ {"hello_world.rs"}]
          [] in.fault = "write" ->
                [failed EXCEPT !.files = (@ \cup {"src", "Cargo.toml"}) \ {"hello_world.rs"}]
          [] OTHER ->
                [s EXCEPT !.log = Append(@, Entry(7, "make_project", 0)),
                          !.files = (@ \cup {"src", "Cargo.toml"}) \ {"hello_world.rs"},
                          !.pc = "opt_compile"]

\* Step 7, optimized compilation: the optimized run only follows a success
OptCompileStep(s, in) ==
    LET t == RustReported(s, 7, "rustc_O", in, IF in.rc = 0 THEN "opt_run" ELSE "uname")
    IN  IF t.pc = "opt_run" THEN [t EXCEPT !.files = @ \cup {"hello_optimized"}] ELSE t

OptRunStep(s, in) == RustReported(s, 7, "hello_optimized", in, "uname")

\* Step 8
UnameStep(s, in) == RustReported(s, 8, "uname", in, "details")

\* Step 9 and `return True`
DetailsStep(s, in) ==
    LET t == RustReported(s, 9, "rustc_details", in, "finally")
    IN  IF t.pc = "finally" THEN [t EXCEPT !.result = "True"] ELSE t

\* except Exception as e: ...; return False
ExceptStep(s, in) == [s EXCEPT !.result = "False", !.pc = "finally"]

\* finally: cleanup_files()
FinallyStep(s, in) ==
    [s EXCEPT !.files = cleanup_files(@),
              !.log = Append(@, Entry(10, "cleanup_files", 0)),
              !.pc = "main"]

\* __main__: sys.exit(0 if success else 1)
MainStep(s, in) == [s EXCEPT !.exitcode = ExitStatus(s.result), !.pc = "exited"]

\* The executions standing at `here` take the step, all on the same input.
RustAct(here, Step(_, _)) ==
    /\ \E in \in Inputs :
          rust' = [i \in DOMAIN rust |->
                      IF rust[i].pc = here THEN Step(rust[i], in) ELSE rust[i]]
    /\ UNCHANGED <<script, pc, attempt, slept, code, stdout, log, result, uncaught, exitcode>>

RustImageCheck ==
    /\ script = "rust"
    /\ \E i \in DOMAIN rust : rust[i].pc = "image_check"
    /\ RustAct("image_check", ImageCheckStep)

RustWriteSource ==
    /\ script = "rust"
    /\ \E i \in DOMAIN rust : rust[i].pc = "write_source"
    /\ RustAct("write_source", WriteSourceStep)

RustRustcVersion ==
    /\ script = "rust"
    /\ \E i \in DOMAIN rust : rust[i].pc = "rustc_version"
    /\ RustAct("rustc_version", RustcVersionStep)

RustCompile ==
    /\ script = "rust"
    /\ \E i \in DOMAIN rust : rust[i].pc = "compile"
    /\ RustAct("compile", CompileStep)

RustRun ==
    /\ script = "rust"
    /\ \E i \in DOMAIN rust : rust[i].pc = "run"
    /\ RustAct("run", RunStep)

\* The executions are fed the same inputs everywhere but here: each gets an
\* exit status of its own from `cargo --version`.
RustCargo ==
    /\ script = "rust"
    /\ \E i \in DOMAIN rust : rust[i].pc = "cargo"
    /\ \E ins \in [DOMAIN rust -> Inputs] :
          rust' = [i \in DOMAIN rust |->
                      IF rust[i].pc = "cargo" THEN CargoStep(rust[i], ins[i]) ELSE rust[i]]
    /\ UNCHANGED <<script, pc, attempt, slept, code, stdout, log, result, uncaught, exitcode>>

RustMakeProject ==
    /\ script = "rust"
    /\ \E i \in DOMAIN rust : rust[i].pc = "make_project"
    /\ RustAct("make_project", MakeProjectStep)

RustOptCompile ==
    /\ script = "rust"
    /\ \E i \in DOMAIN rust : rust[i].pc = "opt_compile"
    /\ RustAct("opt_compile", OptCompileStep)

RustOptRun ==
    /\ script = "rust"
    /\ \E i \in DOMAIN rust : rust[i].pc = "opt_run"
    /\ RustAct("opt_run", OptRunStep)

RustUname ==
    /\ script = "rust"
    /\ \E i \in DOMAIN rust : rust[i].pc = "uname"
    /\ RustAct("uname", UnameStep)

RustDetails ==
    /\ script = "rust"
    /\ \E i \in DOMAIN rust : rust[i].pc = "details"
    /\ RustAct("details", DetailsStep)

RustExcept ==
    /\ script = "rust"
    /\ \E i \in DOMAIN rust : rust[i].pc = "except"
    /\ RustAct("except", ExceptStep)

RustFinally ==
    /\ script = "rust"
    /\ \E i \in DOMAIN rust : rust[i].pc = "finally"
    /\ RustAct("finally", FinallyStep)

RustMain ==
    /\ script = "rust"
    /\ \E i \in DOMAIN rust : rust[i].pc = "main"
    /\ RustAct("main", MainStep)

RustNext ==
    \/ RustImageCheck
    \/ RustWriteSource
    \/ RustRustcVersion
    \/ RustCompile
    \/ RustRun
    \/ RustCargo
    \/ RustMakeProject
    \/ RustOptCompile
    \/ RustOptRun
    \/ RustUname
    \/ RustDetails
    \/ RustExcept
    \/ RustFinally
    \/ RustMain

Next == PgNext \/ RustNext

PgIdle ==
    /\ pc = "not_run"
    /\ attempt = 0
    /\ slept = 0
    /\ code = -1
    /\ stdout = Text
    /\ log = <<>>
    /\ result = "none"
    /\ uncaught = FALSE
    /\ exitcode = -1

\* One execution of one script.  The working directory of the Rust script may
\* hold leftovers of an earlier execution.
Init ==
    \/ /\ script = "postgres"
       /\ pc = "image_check"
       /\ attempt = 0
       /\ slept = 0
       /\ code = -1
       /\ stdout = Text
       /\ log = <<>>
       /\ result = "none"
       /\ uncaught = FALSE
       /\ exitcode = -1
       /\ rust = <<>>
    \/ /\ script = "rust"
       /\ PgIdle
       /\ \E existing \in SUBSET Paths : rust = <<RustStart(existing)>>

Spec == Init /\ [][Next]_vars

\* The scripts are single-threaded and synchronous: a step that can be taken
\* is taken (every external command is assumed to return).
LiveSpec == Init /\ [][Next]_vars /\ WF_vars(Next)

\* Two executions of the Rust script in the same environment: same working
\* directory contents at the start, same outcome of every operation except
\* the exit status of `cargo --version`.
InitPair ==
    /\ script = "rust"
    /\ PgIdle
    /\ \E existing \in SUBSET Paths :
          rust = <<RustStart(existing), RustStart(existing)>>

SpecPair == InitPair /\ [][RustNext]_vars

(***************************************************************************)
(* Properties                                                              *)
(***************************************************************************)
Idx(l) == 1..Len(l)

PgDone == script = "postgres" /\ pc = "exited"

\* Commands after which the PostgreSQL script returns False on a nonzero status.
PgMandatoryCmds ==
    {"images_list", "run", "psql_version", "psql_create", "psql_insert", "psql_select"}

\* The fixed order of the commands of the PostgreSQL script.
PgSequence ==
    << <<1, "images_list">>, <<2, "stop">>, <<2, "delete">>, <<2, "run">>,
       <<3, "pg_isready">>, <<4, "psql_version">>, <<5, "psql_create">>,
       <<5, "psql_insert">>, <<5, "psql_select">>, <<6, "inspect">>,
       <<7, "stop">>, <<7, "delete">> >>

RustMandatoryCmds == {"images_list", "rustc_version", "rustc", "hello_world"}

\* The fixed order of the steps of the Rust script.
RustSequence ==
    << <<1, "images_list">>, <<2, "write_source">>, <<3, "rustc_version">>,
       <<4, "rustc">>, <<5, "hello_world">>, <<6, "cargo_version">>,
       <<7, "make_project">>, <<7, "rustc_O">>, <<7, "hello_optimized">>,
       <<8, "uname">>, <<9, "rustc_details">>, <<10, "cleanup_files">> >>

Rank(seq, e) == CHOOSE n \in 1..Len(seq) : seq[n] = <<e.step, e.cmd>>

InOrder(seq, l) ==
    /\ \A k \in Idx(l) : \E n \in 1..Len(seq) : seq[n] = <<l[k].step, l[k].cmd>>
    /\ \A k, j \in Idx(l) :
          k < j => \/ Rank(seq, l[k]) < Rank(seq, l[j])
                   \/ l[k].cmd = "pg_isready" /\ l[j].cmd = "pg_isready"

FailedProbes(l, upto) == {k \in 1..upto : l[k].cmd = "pg_isready" /\ ~l[k].ok}

Probes(l) == {k \in Idx(l) : l[k].cmd = "pg_isready"}

\* The command at position k made its step fail: a mandatory command with a
\* nonzero status, or the probe that used up the readiness budget.
PgStepFailedAt(l, k) ==
    \/ l[k].cmd \in PgMandatoryCmds /\ ~l[k].ok
    \/ /\ l[k].cmd = "pg_isready"
       /\ ~l[k].ok
       /\ Cardinality(FailedProbes(l, k)) = max_attempts

RustStepFailedAt(l, k) == l[k].cmd \in RustMandatoryCmds /\ ~l[k].ok

FinalStops(l) == {k \in Idx(l) : l[k].step = 7 /\ l[k].cmd = "stop"}

FinalDeletes(l) == {k \in Idx(l) : l[k].step = 7 /\ l[k].cmd = "delete"}

\* C1: in every run of test_postgres_chainguard that returns (on success and
\* on the failure of any mandatory step), the final stop and delete are each
\* issued exactly once, the stop first.
C1_CleanupOncePerRun ==
    (PgDone /\ ~uncaught) =>
        /\ Cardinality(FinalStops(log)) = 1
        /\ Cardinality(FinalDeletes(log)) = 1
        /\ \A a \in FinalStops(log), b \in FinalDeletes(log) : a < b

\* C2: a run whose `container run --detach` returned 0 issues a stop and then
\* a delete of the container after the launch, before the process ends.
C2_LaunchedContainerRemoved ==
    PgDone =>
        \A k \in Idx(log) :
            (log[k].cmd = "run" /\ log[k].ok) =>
                \E a, b \in Idx(log) :
                    /\ k < a /\ a < b
                    /\ log[a].cmd = "stop" /\ log[b].cmd = "delete"

\* C3: in both scripts the steps run in their fixed order, and once a
\* mandatory step has failed (nonzero status, or the readiness budget used
\* up) nothing but cleanup follows and the function returns False.
C3_FirstFailureAborts ==
    /\ script = "postgres" =>
          /\ InOrder(PgSequence, log)
          /\ \A k \in Idx(log) :
                PgStepFailedAt(log, k) =>
                    /\ k = Len(log)
                    /\ pc \in {"sleep", "main", "exited"}
                    /\ pc \in {"main", "exited"} => result = "False"
    /\ \A i \in DOMAIN rust :
          /\ InOrder(RustSequence, rust[i].log)
          /\ \A k \in Idx(rust[i].log) :
                RustStepFailedAt(rust[i].log, k) =>
                    /\ \A j \in Idx(rust[i].log) :
                          j > k => rust[i].log[j].cmd = "cleanup_files"
                    /\ rust[i].pc \in {"finally", "main", "exited"}
                    /\ rust[i].result = "False"

C3_Witness ==
    /\ PgDone
    /\ \E k \in Idx(log) : log[k].cmd = "psql_create" /\ ~log[k].ok

InReadinessLoop == script = "postgres" /\ pc \in {"probe", "sleep"}

\* The readiness loop issues between 1 and max_attempts probes, never probes
\* again after a probe that returned 0, and fails the run when every probe
\* failed.
ReadinessLoopBounded ==
    script = "postgres" =>
        /\ Cardinality(Probes(log)) <= max_attempts
        /\ attempt <= max_attempts
        /\ pc = "probe" => attempt < max_attempts /\ Cardinality(Probes(log)) = attempt
        /\ pc = "sleep" => Cardinality(Probes(log)) = attempt + 1
        /\ \A k \in Probes(log) :
              log[k].ok => /\ \A j \in Probes(log) : j <= k
                           /\ pc \notin {"probe", "sleep"}
        /\ (\E k \in Idx(log) : log[k].cmd = "run" /\ log[k].ok)
              /\ pc \notin {"probe", "sleep"} => Cardinality(Probes(log)) >= 1
        /\ (Cardinality(FailedProbes(log, Len(log))) = max_attempts
              /\ pc \in {"main", "exited"}) => result = "False"

\* C4: the readiness loop, once entered, is always left again, after at least
\* 1 and at most max_attempts probes, right after the first probe that
\* returned 0, and with result False when all max_attempts probes failed.
C4_ReadinessLoopTerminates ==
    /\ []ReadinessLoopBounded
    /\ InReadinessLoop ~> ~InReadinessLoop

C4_Witness ==
    /\ PgDone
    /\ Cardinality(FailedProbes(log, Len(log))) = max_attempts
    /\ result = "False"

RustDone(i) == rust[i].pc = "exited"

\* External commands that are neither cleanup (stop, delete) nor the cargo check.
IsCheckedCmd(e) ==
    e.cmd \notin {"stop", "delete", "cargo_version",
                  "write_source", "make_project", "cleanup_files"}

\* C5 as stated: a nonzero status of any non-cleanup command other than the
\* cargo check makes the overall result False.
C5_AnyNonzeroFails ==
    /\ (PgDone /\ ~uncaught) =>
          \A k \in Idx(log) :
              (IsCheckedCmd(log[k]) /\ ~log[k].ok) => result = "False"
    /\ \A i \in DOMAIN rust :
          RustDone(i) =>
              \A k \in Idx(rust[i].log) :
                  (IsCheckedCmd(rust[i].log[k]) /\ ~rust[i].log[k].ok)
                      => rust[i].result = "False"

\* C5 amended: a nonzero status makes the result False exactly for the
\* mandatory commands (and for the readiness step when all max_attempts probes
\* fail); a run without such a failure and without an exception returns True
\* whatever `container inspect`, the cargo check, the optimized compilation
\* and run, `uname -a` and the Rust-details command returned.
C5_MandatoryNonzeroFails ==
    /\ (PgDone /\ ~uncaught) =>
          (result = "False" <=> \E k \in Idx(log) : PgStepFailedAt(log, k))
    /\ \A i \in DOMAIN rust :
          RustDone(i) =>
              (rust[i].result = "False" <=>
                  \E k \in Idx(rust[i].log) :
                      \/ RustStepFailedAt(rust[i].log, k)
                      \/ /\ rust[i].log[k].cmd \in {"write_source", "make_project"}
                         /\ ~rust[i].log[k].ok)

C5_Witness ==
    \E i \in DOMAIN rust :
        /\ RustDone(i)
        /\ \E k \in Idx(rust[i].log) :
              rust[i].log[k].cmd = "rustc_O" /\ ~rust[i].log[k].ok
        /\ \E k \in Idx(rust[i].log) :
              rust[i].log[k].cmd = "uname" /\ ~rust[i].log[k].ok
        /\ rust[i].result = "True"

\* The log with the outcome of the cargo check blanked.
MaskCargo(l) ==
    [k \in Idx(l) |-> IF l[k].cmd = "cargo_version" THEN [l[k] EXCEPT !.ok = TRUE] ELSE l[k]]

CargoFailed(s) == \E k \in Idx(s.log) : s.log[k].cmd = "cargo_version" /\ ~s.log[k].ok

\* C6: two executions of the Rust script that differ only in the exit status
\* of `cargo --version` stand at the same step, have taken the same steps
\* with the same outcomes, hold the same files and return the same result; a
\* nonzero status there only sets the warning.
C6_CargoStatusIrrelevant ==
    \A i, j \in DOMAIN rust :
        /\ rust[i].pc = rust[j].pc
        /\ MaskCargo(rust[i].log) = MaskCargo(rust[j].log)
        /\ rust[i].files = rust[j].files
        /\ rust[i].result = rust[j].result
        /\ rust[i].exitcode = rust[j].exitcode
        /\ rust[i].warned <=> CargoFailed(rust[i])

C6_Witness ==
    /\ DOMAIN rust = {1, 2}
    /\ RustDone(1) /\ RustDone(2)
    /\ ~CargoFailed(rust[1]) /\ CargoFailed(rust[2])
    /\ rust[2].warned
    /\ rust[1].result = "True" /\ rust[2].result = "True"

PreStops(l) == {k \in Idx(l) : l[k].step = 2 /\ l[k].cmd = "stop"}

PreDeletes(l) == {k \in Idx(l) : l[k].step = 2 /\ l[k].cmd = "delete"}

\* C7: whatever the final stop and delete return, no exception leaves the
\* function, the delete follows the stop, and the function returns True; the
\* pre-launch stop and delete are likewise followed by the delete and the
\* launch whatever they return.
C7_CleanupFailuresTolerated ==
    script = "postgres" =>
        /\ \A k \in FinalStops(log) :
              /\ ~uncaught
              /\ \/ pc = "cleanup_delete" /\ k = Len(log)
                 \/ /\ k + 1 \in FinalDeletes(log)
                    /\ k + 1 = Len(log)
                    /\ pc \in {"main", "exited"}
                    /\ result = "True"
        /\ pc \in {"pre_delete", "launch", "cleanup_delete"} => ~uncaught
        /\ \A k \in PreStops(log) :
              \/ pc = "pre_delete" /\ k = Len(log)
              \/ k + 1 \in PreDeletes(log)
        /\ \A k \in PreDeletes(log) :
              \/ pc = "launch" /\ k = Len(log)
              \/ log[k + 1].cmd = "run"

C7_Witness ==
    /\ PgDone
    /\ \E k \in FinalStops(log) : ~log[k].ok
    /\ \E k \in FinalDeletes(log) : ~log[k].ok
    /\ \E k \in PreStops(log) : ~log[k].ok
    /\ \E k \in PreDeletes(log) : ~log[k].ok
    /\ result = "True"
    /\ exitcode = 0

\* C8: in both scripts no exception leaves the test function, and a run in
\* which a step raised still runs its cleanup phase (final stop and delete,
\* or cleanup_files).
C8_ExceptionsCaughtCleanupRuns ==
    /\ script = "postgres" =>
          /\ ~uncaught
          /\ (pc = "exited" /\ \E k \in Idx(log) : log[k].cmd = "inspect")
                => (FinalStops(log) # {} /\ FinalDeletes(log) # {})
    /\ \A i \in DOMAIN rust :
          RustDone(i) =>
              /\ rust[i].result \in {"True", "False"}
              /\ \E k \in Idx(rust[i].log) : rust[i].log[k].cmd = "cleanup_files"

\* C9: each script exits with 0 exactly when its test function returned True
\* and with 1 exactly when it returned False, and with nothing else.
C9_ExitCodeFromResult ==
    /\ PgDone =>
          /\ exitcode \in {0, 1}
          /\ exitcode = 0 <=> result = "True"
          /\ exitcode = 1 <=> result = "False"
    /\ \A i \in DOMAIN rust :
          RustDone(i) =>
              /\ rust[i].exitcode \in {0, 1}
              /\ rust[i].exitcode = 0 <=> rust[i].result = "True"
              /\ rust[i].exitcode = 1 <=> rust[i].result = "False"

CleanupRuns(l) == {k \in Idx(l) : l[k].cmd = "cleanup_files"}

\* C10: test_rust_chainguard runs cleanup_files exactly once on every exit
\* path, not before it leaves the try statement, and once it has returned
\* none of hello_world.rs, Cargo.toml, hello_world, hello_optimized and src
\* exists.
C10_CleanupFilesOnceAndComplete ==
    \A i \in DOMAIN rust :
        IF rust[i].pc \in {"main", "exited"}
        THEN /\ Cardinality(CleanupRuns(rust[i].log)) = 1
             /\ rust[i].files \cap Paths = {}
             /\ rust[i].result \in {"True", "False"}
        ELSE CleanupRuns(rust[i].log) = {}

C10_Witness ==
    \E i \in DOMAIN rust :
        /\ RustDone(i)
        /\ \E k \in Idx(rust[i].log) :
              rust[i].log[k].cmd = "make_project" /\ ~rust[i].log[k].ok
        /\ rust[i].result = "False"
        /\ rust[i].files = {}

FirstProbeSucceeded(l) ==
    \E k \in Probes(l) : l[k].ok /\ \A j \in Probes(l) : k <= j

\* C11: when the first readiness probe returns 0, nothing is slept, no other
\* probe is issued, and the command issued next is the connectivity query.
C11_ReadyAtFirstProbe ==
    (script = "postgres" /\ FirstProbeSucceeded(log)) =>
        /\ slept = 0
        /\ Cardinality(Probes(log)) = 1
        /\ \A k \in Probes(log) :
              \/ k = Len(log) /\ pc = "connectivity"
              \/ k < Len(log) /\ log[k + 1].cmd = "psql_version"

C11_Witness ==
    /\ PgDone
    /\ FirstProbeSucceeded(log)
    /\ slept = 0
    /\ \E k \in Idx(log) : log[k].cmd = "psql_version"

\* The `container run --name test-rust-chainguard --rm ...` commands of the
\* Rust script (steps 3 to 9).
RustContainerRuns ==
    {"rustc_version", "rustc", "hello_world", "cargo_version",
     "rustc_O", "hello_optimized", "uname", "rustc_details"}

\* Positions of the `container run` commands that returned 0.
PgContainersCreated(l) == {k \in Idx(l) : l[k].cmd = "run" /\ l[k].ok}

RustContainersCreated(l) == {k \in Idx(l) : l[k].cmd \in RustContainerRuns /\ l[k].ok}

FailedSoFar == Cardinality(FailedProbes(log, Len(log)))

\* C13: the sleeps of the readiness loop number the failed probes (the sleep
\* that follows the latest failed probe being still to come while the loop
\* stands between that probe and time.sleep), no sleep follows a successful
\* probe, and the time slept never exceeds max_attempts * sleep_interval,
\* which is reached exactly when all max_attempts probes have failed and the
\* sleep after the last of them is done.
C13_SleepsMatchFailedProbes ==
    script = "postgres" =>
        /\ pc # "sleep" => slept = sleep_interval * FailedSoFar
        /\ pc = "sleep" => slept = sleep_interval * (FailedSoFar - 1)
        /\ (\E k \in Probes(log) : log[k].ok) => pc # "sleep"
        /\ slept <= max_attempts * sleep_interval
        /\ slept = max_attempts * sleep_interval
              <=> (FailedSoFar = max_attempts /\ pc # "sleep")

C13_Witness ==
    /\ PgDone
    /\ FailedSoFar = max_attempts
    /\ slept = max_attempts * sleep_interval

Succeeded(l, cmd) == \E k \in Idx(l) : l[k].cmd = cmd /\ l[k].ok

Failed(l, cmd) == \E k \in Idx(l) : l[k].cmd = cmd /\ ~l[k].ok

\* C14: test_postgres_chainguard returns True exactly when the image check,
\* the launch, one readiness probe, the connectivity query, CREATE TABLE,
\* INSERT and SELECT all returned 0 and no exception left the function; a run
\* that returns, returns False otherwise.  The statuses of `container
\* inspect`, of the pre-launch stop and delete and of the final stop and
\* delete do not enter.
C14_PostgresResult ==
    PgDone =>
        /\ result = "True" <=>
              /\ \A c \in PgMandatoryCmds : Succeeded(log, c)
              /\ Succeeded(log, "pg_isready")
              /\ ~uncaught
        /\ ~uncaught => result \in {"True", "False"}

C14_Witness ==
    /\ PgDone
    /\ result = "True"
    /\ Failed(log, "inspect")
    /\ \A k \in PreStops(log) \cup PreDeletes(log) : ~log[k].ok
    /\ \A k \in FinalStops(log) \cup FinalDeletes(log) : ~log[k].ok
    /\ Failed(log, "pg_isready")

\* C15: the pre-launch stop and delete are issued only after a successful
\* image check, stop first, each followed by the next command whatever it
\* returned and without touching `code` or the result, and always before
\* `container run`; after a failed image check no further command is issued.
C15_PreLaunchCleanup ==
    script = "postgres" =>
        /\ Failed(log, "images_list") => Len(log) = 1
        /\ \A k \in PreStops(log) :
              /\ k = 2
              /\ log[1].cmd = "images_list" /\ log[1].ok
              /\ \/ k = Len(log) /\ pc = "pre_delete"
                 \/ k + 1 \in PreDeletes(log)
        /\ \A k \in PreDeletes(log) :
              /\ k = 3
              /\ 2 \in PreStops(log)
              /\ \/ k = Len(log) /\ pc = "launch"
                 \/ k < Len(log) /\ log[k + 1].cmd = "run"
        /\ \A k \in Idx(log) :
              log[k].cmd = "run" => (k = 4 /\ 2 \in PreStops(log) /\ 3 \in PreDeletes(log))
        /\ pc \in {"pre_delete", "launch"} =>
              (code = 0 /\ result = "none" /\ ~uncaught)

C15_Witness ==
    /\ script = "postgres"
    /\ pc = "probe"
    /\ Len(log) = 4
    /\ ~log[2].ok /\ ~log[3].ok
    /\ log[4].cmd = "run" /\ log[4].ok

\* C16: test_rust_chainguard returns True exactly when the image check, the
\* rustc version check, the compilation and the run of the compiled program
\* all returned 0 and no step raised an exception, and False otherwise; the
\* statuses of the cargo check, the optimized compilation and run, `uname -a`
\* and the Rust-details command do not enter.
C16_RustResult ==
    \A i \in DOMAIN rust :
        RustDone(i) =>
            /\ rust[i].result \in {"True", "False"}
            /\ rust[i].result = "True" <=>
                  /\ \A c \in RustMandatoryCmds : Succeeded(rust[i].log, c)
                  /\ ~Failed(rust[i].log, "write_source")
                  /\ ~Failed(rust[i].log, "make_project")

C16_Witness ==
    \E i \in DOMAIN rust :
        /\ RustDone(i)
        /\ rust[i].result = "True"
        /\ Failed(rust[i].log, "cargo_version")
        /\ Failed(rust[i].log, "rustc_O")
        /\ Failed(rust[i].log, "uname")
        /\ Failed(rust[i].log, "rustc_details")

====
